---- MODULE Spec2Model ----
(***************************************************************************)
(* Model of homework.py: the Training class hierarchy (Running,            *)
(* SportsWalking, Swimming), InfoMessage, read_package and the __main__    *)
(* driver loop.                                                            *)
(*                                                                         *)
(* Numbers.  Python computes with ints and binary floats; here every       *)
(* number is an exact rational [n |-> numerator, d |-> denominator > 0]    *)
(* in lowest terms, and the arithmetic operators are the exact ones.       *)
(* Rounding of binary floating point (an error of about 1e-16 relative)    *)
(* is below the resolution of this model.                                  *)
(*                                                                         *)
(* Calls.  A Python call either returns a value or raises; an operator     *)
(* modelling a function yields Return(v) or Raise(exc), and a raise in a   *)
(* sub-expression propagates in Python's left-to-right evaluation order.   *)
(***************************************************************************)
EXTENDS Integers, Sequences, FiniteSets, TLC

VARIABLES
    obj,        \* API session: the object under test (NoObj before any)
    obj0,       \* API session: obj as its constructor left it
    last,       \* API session: the last call made and its outcome
    infos,      \* API session: results of the show_training_info calls on obj
    ncalls,     \* API session: number of method calls made on obj
    packages,   \* driver: the list of (workout_type, data) pairs
    idx,        \* driver: index (1-based) of the package being processed
    pc,         \* driver: position in the for loop
    training,   \* driver: the loop variable `training`
    stdout,     \* driver: lines printed so far
    exc         \* driver: the uncaught exception that ended the run, or "none"

vars == <<obj, obj0, last, infos, ncalls, packages, idx, pc, training, stdout, exc>>
apiVars == <<obj, obj0, last, infos, ncalls>>
driverVars == <<packages, idx, pc, training, stdout, exc>>

----------------------------------------------------------------------------
(* Bounds of the model *)

\* longest data sequence passed to read_package
MaxLen == 6
\* most method calls made on one object in an API session
MaxCalls == 3
\* longest package list given to the driver
MaxPackages == 3

----------------------------------------------------------------------------
(* Evaluation order.  Then(v, F) evaluates v once and hands its value to F, *)
(* as a Python statement evaluates a sub-expression once and uses the      *)
(* result.                                                                 *)

Then(v, F(_)) == CHOOSE r \in {F(x) : x \in {v}} : TRUE
Then2(v, w, F(_, _)) == CHOOSE r \in {F(x, y) : x \in {v}, y \in {w}} : TRUE

----------------------------------------------------------------------------
(* Exact rational arithmetic standing for Python's numeric operators *)

Abs(x) == IF x < 0 THEN -x ELSE x

RECURSIVE Gcd(_, _)
Gcd(a, b) == IF b = 0 THEN a ELSE Then(a % b, LAMBDA r : Gcd(b, r))

\* the rational n/d (d # 0) in lowest terms with a positive denominator
Rat(n, d) ==
    Then2(Gcd(Abs(n), Abs(d)), IF d < 0 THEN -1 ELSE 1,
          LAMBDA g, s : [n |-> (s * n) \div g, d |-> (s * d) \div g])

Int2R(k) == [n |-> k, d |-> 1]

RAdd(a, b) == Then2(a, b, LAMBDA x, y : Rat(x.n * y.d + y.n * x.d, x.d * y.d))
RSub(a, b) == Then2(a, b, LAMBDA x, y : Rat(x.n * y.d - y.n * x.d, x.d * y.d))
\* common factors are cancelled crosswise before the products are formed
RMul(a, b) ==
    Then2(a, b, LAMBDA x, y :
        IF x.n = 0 \/ y.n = 0 THEN Int2R(0)
        ELSE Then2(Gcd(Abs(x.n), y.d), Gcd(Abs(y.n), x.d), LAMBDA g, h :
                Rat((x.n \div g) * (y.n \div h), (x.d \div h) * (y.d \div g))))
\* a / b for b # 0
RTrueDiv(a, b) ==
    Then(b, LAMBDA y :
        RMul(a, IF y.n < 0 THEN [n |-> -y.d, d |-> -y.n]
                ELSE [n |-> y.d, d |-> y.n]))
\* floor of a / b for b # 0, as a number (Python's // on floats)
RFloorDivQ(a, b) == Then(RTrueDiv(a, b), LAMBDA q : Int2R(q.n \div q.d))
RLess(a, b) == Then2(a, b, LAMBDA x, y : x.n * y.d < y.n * x.d)
IsZero(a) == a.n = 0

----------------------------------------------------------------------------
(* Outcomes of a call *)

Return(v) == [kind |-> "return", val |-> v]
Raise(e) == [kind |-> "raise", exc |-> e]
Returned(r) == r.kind = "return"
Raised(r) == r.kind = "raise"

\* Python's None
None == [none |-> TRUE]

\* x / y guarded against a zero divisor, yielding 0
Div_Guarded(x, y) ==
    Then2(x, y, LAMBDA a, b :
        IF IsZero(b) THEN Return(Int2R(0)) ELSE Return(RTrueDiv(a, b)))

\* x / y
Div(x, y) ==
    Then2(x, y, LAMBDA a, b :
        IF IsZero(b) THEN Raise("ZeroDivisionError") ELSE Return(RTrueDiv(a, b)))
\* x // y written as x / y
FloorDiv_True(x, y) ==
    Then2(x, y, LAMBDA a, b :
        IF IsZero(b) THEN Raise("ZeroDivisionError") ELSE Return(RTrueDiv(a, b)))

\* x // y
FloorDiv(x, y) ==
    Then2(x, y, LAMBDA a, b :
        IF IsZero(b) THEN Raise("ZeroDivisionError") ELSE Return(RFloorDivQ(a, b)))

----------------------------------------------------------------------------
(* Objects.  An instance is a record of its class name and its attributes. *)

NoObj == [cls |-> "NoObj"]

\* the effect of a method call: the instance afterwards and the outcome
Eff(self, out) == [self |-> self, out |-> out]

(* class InfoMessage *)

InfoMessage__init__(training_type, duration, distance, speed, calories) ==
    [cls |-> "InfoMessage",
     training_type |-> training_type,
     duration |-> duration,
     distance |-> distance,
     speed |-> speed,
     calories |-> calories]

\* x rounded to thousandths (format spec .3f), as an integer count of
\* thousandths; a tie goes to the even neighbour
Fixed3(x) ==
    Then2((x.n * 1000) \div x.d, 2 * ((x.n * 1000) % x.d), LAMBDA q, r2 :
        IF r2 < x.d THEN q
        ELSE IF r2 > x.d THEN q + 1
        ELSE IF q % 2 = 0 THEN q ELSE q + 1)

\* float.__format__ with '.3f'; None does not accept a format spec
Format3f(x) == IF x = None THEN Raise("TypeError") ELSE Return(Fixed3(x))

\* The f-string of get_message: the four numbers are formatted left to
\* right and filled into the fixed text together with the class name.  The
\* line is kept as the values filled in; the literal text between them is
\* the same in every line.
InfoMessage_get_message(self) ==
    Then(Format3f(self.duration), LAMBDA f1 : IF Raised(f1) THEN f1 ELSE
    Then(Format3f(self.distance), LAMBDA f2 : IF Raised(f2) THEN f2 ELSE
    Then(Format3f(self.speed), LAMBDA f3 : IF Raised(f3) THEN f3 ELSE
    Then(Format3f(self.calories), LAMBDA f4 : IF Raised(f4) THEN f4 ELSE
         Return([training_type |-> self.training_type,
                     duration |-> f1.val,
                     distance |-> f2.val,
                     speed |-> f3.val,
                     calories |-> f4.val])))))

(* class Training and its subclasses: class attributes *)

M_IN_KM == 1000
TIME_IN_MIN == 60
coeff_calorie_RUN_1 == 18
coeff_calorie_RUN_2 == 20
coeff_calorie_WLK_1 == Rat(35, 1000)
coeff_calorie_WLK_2 == Rat(29, 1000)
coeff_calorie_SWM_1 == Rat(11, 10)
coeff_calorie_SWM_2 == 2

\* self.LEN_STEP: Swimming overrides the class attribute of Training
LEN_STEP(self) ==
    IF self.cls = "Swimming" THEN Rat(138, 100) ELSE Rat(65, 100)

(* constructors *)

Training__init__(cls, action, duration, weight) ==
    [cls |-> cls, action |-> action, duration |-> duration, weight |-> weight]

SportsWalking__init__(cls, action, duration, weight, height) ==
    Training__init__(cls, action, duration, weight) @@ [height |-> height]

\* Swimming.__init__ with its two extra fields assigned crosswise
Swimming__init__Swapped(cls, action, duration, weight, length_pool, count_pool) ==
    Training__init__(cls, action, duration, weight)
        @@ [length_pool |-> count_pool, count_pool |-> length_pool]

Swimming__init__(cls, action, duration, weight, length_pool, count_pool) ==
    Training__init__(cls, action, duration, weight)
        @@ [length_pool |-> length_pool, count_pool |-> count_pool]

\* number of positional parameters (after self) of the __init__ a class
\* resolves to; Running inherits Training.__init__
InitArity(cls) ==
    CASE cls = "Training" -> 3
      [] cls = "Running" -> 3
      [] cls = "SportsWalking" -> 4
      [] cls = "Swimming" -> 5

\* Instantiate with every parameter defaulted to 0 and surplus arguments dropped
Instantiate_Lenient(cls, args) ==
    LET a == [i \in 1..5 |-> IF i <= Len(args) THEN args[i] ELSE Int2R(0)]
    IN  CASE cls = "SportsWalking" ->
                Return(SportsWalking__init__(cls, a[1], a[2], a[3], a[4]))
          [] cls = "Swimming" ->
                Return(Swimming__init__(cls, a[1], a[2], a[3], a[4], a[5]))
          [] OTHER ->
                Return(Training__init__(cls, a[1], a[2], a[3]))

\* cls(*args): the call binds args to the parameters of __init__ one to one
\* and raises TypeError when their number differs; no parameter has a default
Instantiate(cls, args) ==
    IF Len(args) # InitArity(cls) THEN Raise("TypeError")
    ELSE CASE cls = "SportsWalking" ->
                Return(SportsWalking__init__(cls, args[1], args[2], args[3], args[4]))
           [] cls = "Swimming" ->
                Return(Swimming__init__(cls, args[1], args[2], args[3], args[4], args[5]))
           [] OTHER ->
                Return(Training__init__(cls, args[1], args[2], args[3]))

(* methods *)

Training_get_distance(self) ==
    Eff(self, Div(RMul(self.action, LEN_STEP(self)), Int2R(M_IN_KM)))

Swimming_get_distance(self) ==
    Eff(self, Div(RMul(self.action, LEN_STEP(self)), Int2R(M_IN_KM)))

get_distance(self) ==
    IF self.cls = "Swimming" THEN Swimming_get_distance(self)
    ELSE Training_get_distance(self)

Training_get_mean_speed(self) ==
    Then(get_distance(self), LAMBDA e :
        IF Raised(e.out) THEN e
        ELSE Eff(e.self, Div(e.out.val, e.self.duration)))

\* Swimming without its override of get_mean_speed: distance / duration
Swimming_get_mean_speed_Inherited(self) ==
    Then(get_distance(self), LAMBDA e :
        IF Raised(e.out) THEN e
        ELSE Eff(e.self, Div(e.out.val, e.self.duration)))

Swimming_get_mean_speed(self) ==
    Then(Div(RMul(self.length_pool, self.count_pool), Int2R(M_IN_KM)),
         LAMBDA km :
            IF Raised(km) THEN Eff(self, km)
            ELSE Eff(self, Div(km.val, self.duration)))

get_mean_speed(self) ==
    IF self.cls = "Swimming" THEN Swimming_get_mean_speed(self)
    ELSE Training_get_mean_speed(self)

\* the body is `pass`: the call returns None
Training_get_spent_calories(self) == Eff(self, Return(None))

\* Running.get_spent_calories converting self.duration to minutes in place
\* (self.duration *= TIME_IN_MIN) before using it
Running_get_spent_calories_InPlace(self) ==
    Then(get_mean_speed(self), LAMBDA e :
        IF Raised(e.out) THEN e
        ELSE Then(Div(RMul(RSub(RMul(Int2R(coeff_calorie_RUN_1), e.out.val),
                                Int2R(coeff_calorie_RUN_2)),
                           e.self.weight),
                      Int2R(M_IN_KM)),
                  LAMBDA c :
                    IF Raised(c) THEN Eff(e.self, c)
                    ELSE Then(RMul(e.self.duration, Int2R(TIME_IN_MIN)),
                              LAMBDA minutes :
                                Eff([e.self EXCEPT !.duration = minutes],
                                    Return(RMul(c.val, minutes))))))

\* Running.get_spent_calories with the two coefficients exchanged
Running_get_spent_calories_Exchanged(self) ==
    Then(get_mean_speed(self), LAMBDA e :
        IF Raised(e.out) THEN e
        ELSE Then(Div(RMul(RSub(RMul(Int2R(coeff_calorie_RUN_2), e.out.val),
                                Int2R(coeff_calorie_RUN_1)),
                           e.self.weight),
                      Int2R(M_IN_KM)),
                  LAMBDA c :
                    IF Raised(c) THEN Eff(e.self, c)
                    ELSE Eff(e.self,
                             Return(RMul(RMul(c.val, e.self.duration),
                                         Int2R(TIME_IN_MIN))))))

Running_get_spent_calories(self) ==
    Then(get_mean_speed(self), LAMBDA e :
        IF Raised(e.out) THEN e
        ELSE Then(Div(RMul(RSub(RMul(Int2R(coeff_calorie_RUN_1), e.out.val),
                                Int2R(coeff_calorie_RUN_2)),
                           e.self.weight),
                      Int2R(M_IN_KM)),
                  LAMBDA c :
                    IF Raised(c) THEN Eff(e.self, c)
                    ELSE Eff(e.self,
                             Return(RMul(RMul(c.val, e.self.duration),
                                         Int2R(TIME_IN_MIN))))))

SportsWalking_get_spent_calories(self) ==
    Then2(RMul(coeff_calorie_WLK_1, self.weight), get_mean_speed(self),
          LAMBDA t1, e :
            IF Raised(e.out) THEN e
            ELSE Then(FloorDiv(RMul(e.out.val, e.out.val), e.self.height),
                      LAMBDA fl :
                        IF Raised(fl) THEN Eff(e.self, fl)
                        ELSE Eff(e.self, Return(
                                RMul(RAdd(t1, RMul(RMul(fl.val, coeff_calorie_WLK_2),
                                                   e.self.weight)),
                                     RMul(e.self.duration, Int2R(60)))))))

Swimming_get_spent_calories(self) ==
    Then(get_mean_speed(self), LAMBDA e :
        IF Raised(e.out) THEN e
        ELSE Eff(e.self,
                 Return(RMul(RMul(RAdd(e.out.val, coeff_calorie_SWM_1),
                                  Int2R(coeff_calorie_SWM_2)),
                             e.self.weight))))

get_spent_calories(self) ==
    CASE self.cls = "Running" -> Running_get_spent_calories(self)
      [] self.cls = "SportsWalking" -> SportsWalking_get_spent_calories(self)
      [] self.cls = "Swimming" -> Swimming_get_spent_calories(self)
      [] OTHER -> Training_get_spent_calories(self)

\* the arguments of InfoMessage(...) are evaluated left to right:
\* self.__class__.__name__, self.duration, then the three method calls
Training_show_training_info(self) ==
    Then2(self.cls, self.duration, LAMBDA name, dur :
      Then(get_distance(self), LAMBDA e1 :
        IF Raised(e1.out) THEN e1
        ELSE Then(get_mean_speed(e1.self), LAMBDA e2 :
          IF Raised(e2.out) THEN e2
          ELSE Then(get_spent_calories(e2.self), LAMBDA e3 :
            IF Raised(e3.out) THEN e3
            ELSE Eff(e3.self, Return(InfoMessage__init__(
                        name, dur, e1.out.val, e2.out.val, e3.out.val)))))))

(* module level *)

\* the dict `training` of read_package
training_dict ==
    [x \in {"SWM", "RUN", "WLK"} |->
        CASE x = "SWM" -> "Swimming"
          [] x = "RUN" -> "Running"
          [] x = "WLK" -> "SportsWalking"]

\* read_package with a lookup that falls back to Running (dict.get)
read_package_Default(workout_type, data) ==
    IF workout_type \notin DOMAIN training_dict THEN Instantiate("Running", data)
    ELSE Instantiate(training_dict[workout_type], data)

read_package(workout_type, data) ==
    IF workout_type \notin DOMAIN training_dict THEN Raise("KeyError")
    ELSE Instantiate(training_dict[workout_type], data)

\* main(training): the line printed, or the exception raised before printing
main(t) ==
    Then(Training_show_training_info(t), LAMBDA e :
        IF Raised(e.out) THEN e.out
        ELSE InfoMessage_get_message(e.out.val))

----------------------------------------------------------------------------
(* Inputs *)

\* the values tried at position i of a data sequence
PosVals(i) ==
    CASE i = 1 -> {0, 720, 9000, 15000}
      [] i = 2 -> {0, 1, 2}
      [] i = 3 -> {75, 80}
      [] i = 4 -> {0, 25, 180}
      [] i = 5 -> {2, 40}
      [] OTHER -> {7}

RECURSIVE DataOfLen(_)
DataOfLen(k) ==
    IF k = 0 THEN {<<>>}
    ELSE {Append(s, Int2R(v)) : s \in DataOfLen(k - 1), v \in PosVals(k)}

DataSeqs == UNION {DataOfLen(k) : k \in 0..MaxLen}

WorkoutTypes == {"SWM", "RUN", "WLK", "CYC"}

Nums(s) == [i \in 1..Len(s) |-> Int2R(s[i])]

\* the packages of the __main__ block
MainPackages ==
    <<<<"SWM", Nums(<<720, 1, 80, 25, 40>>)>>,
      <<"RUN", Nums(<<15000, 1, 75>>)>>,
      <<"WLK", Nums(<<9000, 1, 75, 180>>)>>>>

\* packages the driver is tried on: those of the __main__ block and one for
\* each way a record can fault
PackagePool ==
    {MainPackages[i] : i \in 1..3}
        \cup {<<"CYC", Nums(<<9000, 1, 75>>)>>,
              <<"RUN", Nums(<<15000, 1>>)>>,
              <<"WLK", Nums(<<9000, 1, 75, 180, 7>>)>>,
              <<"RUN", Nums(<<15000, 0, 75>>)>>}

RECURSIVE ListsOfLen(_)
ListsOfLen(k) ==
    IF k = 0 THEN {<<>>}
    ELSE {Append(s, p) : s \in ListsOfLen(k - 1), p \in PackagePool}

PackageLists == UNION {ListsOfLen(k) : k \in 0..MaxPackages}

----------------------------------------------------------------------------
(* API session: one object is built, then its methods are called *)

ApiIdle ==
    /\ obj = NoObj
    /\ obj0 = NoObj
    /\ last = [op |-> "none"]
    /\ infos = <<>>
    /\ ncalls = 0

DriverOff ==
    /\ packages = <<>>
    /\ idx = 1
    /\ pc = "off"
    /\ training = NoObj
    /\ stdout = <<>>
    /\ exc = "none"

Init == ApiIdle /\ DriverOff

\* obj = read_package(workout_type, data), the first statement of a session;
\* a raise leaves obj unassigned
DoReadPackage(workout_type, data) ==
    LET r == read_package(workout_type, data)
    IN  /\ last.op = "none"
        /\ last' = [op |-> "read_package", workout_type |-> workout_type,
                    data |-> data, out |-> r]
        /\ obj' = IF Returned(r) THEN r.val ELSE obj
        /\ obj0' = obj'
        /\ UNCHANGED <<infos, ncalls>>
        /\ UNCHANGED driverVars

\* obj = Training(*data), the first statement of a session: the base class
\* instantiated directly
DoNewTraining(data) ==
    LET r == Instantiate("Training", data)
    IN  /\ last.op = "none"
        /\ last' = [op |-> "Training", data |-> data, out |-> r]
        /\ obj' = IF Returned(r) THEN r.val ELSE obj
        /\ obj0' = obj'
        /\ UNCHANGED <<infos, ncalls>>
        /\ UNCHANGED driverVars

\* a method call on obj with effect e
MethodCall(op, e) ==
    /\ obj # NoObj
    /\ ncalls < MaxCalls
    /\ last' = [op |-> op, self |-> obj, out |-> e.out]
    /\ obj' = e.self
    /\ ncalls' = ncalls + 1
    /\ infos' = IF op = "show_training_info" THEN Append(infos, e.out) ELSE infos
    /\ UNCHANGED obj0
    /\ UNCHANGED driverVars

DoGetDistance == MethodCall("get_distance", get_distance(obj))

DoGetMeanSpeed == MethodCall("get_mean_speed", get_mean_speed(obj))

DoGetSpentCalories == MethodCall("get_spent_calories", get_spent_calories(obj))

DoShowTrainingInfo ==
    MethodCall("show_training_info", Training_show_training_info(obj))

\* main(obj): the line it prints, or the exception it raises
DoMain ==
    /\ obj # NoObj
    /\ ncalls < MaxCalls
    /\ last' = [op |-> "main", self |-> obj, out |-> main(obj)]
    /\ obj' = Training_show_training_info(obj).self
    /\ ncalls' = ncalls + 1
    /\ UNCHANGED <<obj0, infos>>
    /\ UNCHANGED driverVars

Next ==
    \/ \E w \in WorkoutTypes, d \in DataSeqs : DoReadPackage(w, d)
    \/ \E d \in DataSeqs : DoNewTraining(d)
    \/ DoGetDistance
    \/ DoGetMeanSpeed
    \/ DoGetSpentCalories
    \/ DoShowTrainingInfo
    \/ DoMain

Spec == Init /\ [][Next]_vars

----------------------------------------------------------------------------
(* The __main__ block: for workout_type, data in packages: ... *)

DriverInit ==
    /\ ApiIdle
    /\ packages \in PackageLists
    /\ idx = 1
    /\ pc = "for"
    /\ training = NoObj
    /\ stdout = <<>>
    /\ exc = "none"

\* the for statement takes the next pair, or ends the loop
ForStep ==
    /\ pc = "for"
    /\ pc' = IF idx <= Len(packages) THEN "read" ELSE "exit"
    /\ UNCHANGED <<packages, idx, training, stdout, exc>>
    /\ UNCHANGED apiVars

\* the loop body with the read wrapped in try/except: a record that cannot
\* be read is skipped and the loop goes on
ReadStep_SkipBad ==
    LET r == read_package(packages[idx][1], packages[idx][2])
    IN  /\ pc = "read"
        /\ IF Returned(r)
           THEN /\ training' = r.val
                /\ pc' = "main"
                /\ idx' = idx
           ELSE /\ training' = training
                /\ pc' = "for"
                /\ idx' = idx + 1
        /\ UNCHANGED <<packages, stdout, exc>>
        /\ UNCHANGED apiVars

\* training = read_package(workout_type, data)
ReadStep ==
    LET r == read_package(packages[idx][1], packages[idx][2])
    IN  /\ pc = "read"
        /\ IF Returned(r)
           THEN /\ training' = r.val
                /\ pc' = "main"
                /\ exc' = exc
           ELSE /\ training' = training
                /\ pc' = "aborted"
                /\ exc' = r.exc
        /\ UNCHANGED <<packages, idx, stdout>>
        /\ UNCHANGED apiVars

\* main(training)
MainStep ==
    LET r == main(training)
    IN  /\ pc = "main"
        /\ IF Returned(r)
           THEN /\ stdout' = Append(stdout, r.val)
                /\ idx' = idx + 1
                /\ pc' = "for"
                /\ exc' = exc
           ELSE /\ stdout' = stdout
                /\ idx' = idx
                /\ pc' = "aborted"
                /\ exc' = r.exc
        /\ UNCHANGED <<packages, training>>
        /\ UNCHANGED apiVars

DriverNext == ForStep \/ ReadStep \/ MainStep

DriverSpec == DriverInit /\ [][DriverNext]_vars

\* the interpreter runs the loop to its end: it never stops between statements
FairDriverSpec == DriverSpec /\ WF_vars(DriverNext)

----------------------------------------------------------------------------
(* Properties of read_package *)

Registered == {"SWM", "RUN", "WLK"}

LastIsRead == last.op = "read_package"

\* C1: for every tag outside the registry and every data sequence,
\* read_package fails with the lookup's unknown-key error; no variant is
\* instantiated (the failure is not a constructor's) and no record is returned.
C1_UnknownTagFails ==
    (LastIsRead /\ last.workout_type \notin Registered)
        => (last.out = Raise("KeyError") /\ obj = NoObj)

C1_Witness ==
    /\ LastIsRead
    /\ last.workout_type = "CYC"
    /\ Len(last.data) = 3
    /\ last.out = Raise("KeyError")

\* the number of fields the claim gives each tag
FieldCount(tag) ==
    CASE tag = "RUN" -> 3
      [] tag = "WLK" -> 4
      [] tag = "SWM" -> 5

\* C2: for every registered tag, a data sequence whose length differs from
\* the variant's field count (3 for RUN, 4 for WLK, 5 for SWM) makes
\* read_package fail with the constructor's argument-count error; no record
\* is returned.
C2_ArityMismatchFails ==
    (/\ LastIsRead
     /\ last.workout_type \in Registered
     /\ Len(last.data) # FieldCount(last.workout_type))
        => (last.out = Raise("TypeError") /\ obj = NoObj)

\* one element short for one tag, and one element long for another, are
\* separate sessions; the witness is the long one for SWM
C2_Witness ==
    /\ LastIsRead
    /\ last.workout_type = "SWM"
    /\ Len(last.data) = 6
    /\ last.out = Raise("TypeError")

C2_WitnessShort ==
    /\ LastIsRead
    /\ last.workout_type = "WLK"
    /\ Len(last.data) = 3
    /\ last.out = Raise("TypeError")

\* the record the claim expects for a tag and a data sequence of the right length
ExpectedRecord(tag, d) ==
    CASE tag = "RUN" ->
            [cls |-> "Running", action |-> d[1], duration |-> d[2], weight |-> d[3]]
      [] tag = "WLK" ->
            [cls |-> "SportsWalking", action |-> d[1], duration |-> d[2],
             weight |-> d[3], height |-> d[4]]
      [] tag = "SWM" ->
            [cls |-> "Swimming", action |-> d[1], duration |-> d[2],
             weight |-> d[3], length_pool |-> d[4], count_pool |-> d[5]]

\* C4: for every registered tag and data of the right length, read_package
\* returns a record of the variant the lookup names, with data bound to the
\* fields by position in declaration order.
C4_PositionalBinding ==
    (/\ LastIsRead
     /\ last.workout_type \in Registered
     /\ Len(last.data) = FieldCount(last.workout_type))
        => (/\ last.out = Return(ExpectedRecord(last.workout_type, last.data))
            /\ obj = ExpectedRecord(last.workout_type, last.data)
            /\ DOMAIN obj = DOMAIN ExpectedRecord(last.workout_type, last.data))

C4_Witness ==
    /\ LastIsRead
    /\ last.workout_type = "SWM"
    /\ last.data = Nums(<<720, 1, 80, 25, 40>>)
    /\ Returned(last.out)
    /\ obj.cls = "Swimming"
    /\ obj.length_pool = Int2R(25)
    /\ obj.count_pool = Int2R(40)

----------------------------------------------------------------------------
(* Properties of the formulas *)

Zero == Int2R(0)
Positive(x) == RLess(Zero, x)
Getters == {"get_distance", "get_mean_speed", "get_spent_calories",
            "show_training_info"}

\* the last call was method op on an instance of class cls
LastCall(op, cls) == last.op = op /\ last.self.cls = cls

\* the summary with the given values
Summary(t, distance, speed, calories) ==
    [cls |-> "InfoMessage", training_type |-> t.cls, duration |-> t.duration,
     distance |-> distance, speed |-> speed, calories |-> calories]

\* the formulas of C5, evaluated in the order written there
C5_Distance(t) == RTrueDiv(RMul(t.action, Rat(65, 100)), Int2R(1000))
C5_Speed(t) == RTrueDiv(C5_Distance(t), t.duration)
C5_Calories(t) ==
    RMul(RMul(RTrueDiv(RMul(RSub(RMul(Int2R(18), C5_Speed(t)), Int2R(20)),
                            t.weight),
                       Int2R(1000)),
              t.duration),
         Int2R(60))

C5_Example == [cls |-> "Running", action |-> Int2R(15000),
               duration |-> Int2R(1), weight |-> Int2R(75)]

\* C5: for every Running record with duration > 0, distance is
\* action * 0.65 / 1000, mean speed is distance / duration and calories are
\* (18 * meanSpeed - 20) * weight / 1000 * duration * 60, from each getter
\* and in the summary; action=15000, duration=1, weight=75 gives 9.75, 9.75
\* and 699.75.
C5_RunningFormulas ==
    (last.op \in Getters /\ last.self.cls = "Running" /\ Positive(last.self.duration))
        => /\ last.op = "get_distance"
                => last.out = Return(C5_Distance(last.self))
           /\ last.op = "get_mean_speed"
                => last.out = Return(C5_Speed(last.self))
           /\ last.op = "get_spent_calories"
                => last.out = Return(C5_Calories(last.self))
           /\ last.op = "show_training_info"
                => last.out = Return(Summary(last.self, C5_Distance(last.self),
                                             C5_Speed(last.self),
                                             C5_Calories(last.self)))
           /\ (last.op = "show_training_info" /\ last.self = C5_Example)
                => /\ last.out.val.distance = Rat(975, 100)
                   /\ last.out.val.speed = Rat(975, 100)
                   /\ last.out.val.calories = Rat(69975, 100)

C5_Witness ==
    /\ LastCall("show_training_info", "Running")
    /\ last.self = C5_Example
    /\ Returned(last.out)
    /\ last.out.val.calories = Rat(69975, 100)

\* the floor of a rational, as a rational
Floor(x) == Int2R(x.n \div x.d)

\* the formula of C6, with the speed the record reports
C6_FloorTerm(t, speed) == Floor(RTrueDiv(RMul(speed, speed), t.height))
C6_Calories(t, speed) ==
    RMul(RAdd(RMul(Rat(35, 1000), t.weight),
              RMul(RMul(C6_FloorTerm(t, speed), Rat(29, 1000)), t.weight)),
         RMul(t.duration, Int2R(60)))

C6_Example == [cls |-> "SportsWalking", action |-> Int2R(9000),
               duration |-> Int2R(1), weight |-> Int2R(75),
               height |-> Int2R(180)]

\* C6: for every SportsWalking record with duration > 0 and height > 0,
\* calories are (0.035 * weight + floor(meanSpeed^2 / height) * 0.029 * weight)
\* * (duration * 60); the second term is 0 whenever meanSpeed^2 < height;
\* action=9000, duration=1, weight=75, height=180 gives distance 5.85, mean
\* speed 5.85, floor term 0 and calories 157.5.
C6_WalkingFormula ==
    (/\ last.op \in {"get_spent_calories", "show_training_info"}
     /\ last.self.cls = "SportsWalking"
     /\ Positive(last.self.duration)
     /\ Positive(last.self.height))
        => LET t == last.self
               speed == C5_Speed(t)
               cal == IF last.op = "get_spent_calories" THEN last.out.val
                      ELSE last.out.val.calories
           IN  /\ Returned(last.out)
               /\ cal = C6_Calories(t, speed)
               /\ last.op = "show_training_info" => last.out.val.speed = speed
               /\ RLess(RMul(speed, speed), t.height)
                    => cal = RMul(RMul(Rat(35, 1000), t.weight),
                                  RMul(t.duration, Int2R(60)))
               /\ (last.op = "show_training_info" /\ t = C6_Example)
                    => /\ last.out.val.distance = Rat(585, 100)
                       /\ last.out.val.speed = Rat(585, 100)
                       /\ C6_FloorTerm(t, last.out.val.speed) = Zero
                       /\ cal = Rat(1575, 10)

C6_Witness ==
    /\ LastCall("show_training_info", "SportsWalking")
    /\ last.self = C6_Example
    /\ Returned(last.out)
    /\ last.out.val.calories = Rat(1575, 10)

\* a SportsWalking record whose floor term is not 0
C6_WitnessStep ==
    /\ LastCall("get_spent_calories", "SportsWalking")
    /\ Positive(last.self.duration)
    /\ Positive(last.self.height)
    /\ Returned(last.out)
    /\ RLess(Zero, C6_FloorTerm(last.self, C5_Speed(last.self)))

\* the formulas of C7
C7_Speed(t) ==
    RTrueDiv(RTrueDiv(RMul(t.length_pool, t.count_pool), Int2R(1000)), t.duration)
C7_Calories(t) == RMul(RMul(RAdd(C7_Speed(t), Rat(11, 10)), Int2R(2)), t.weight)
C7_Distance(t) == RTrueDiv(RMul(t.action, Rat(138, 100)), Int2R(1000))

C7_Example == [cls |-> "Swimming", action |-> Int2R(720),
               duration |-> Int2R(1), weight |-> Int2R(80),
               length_pool |-> Int2R(25), count_pool |-> Int2R(40)]

\* the summary of a Swimming record t
SummaryOf(t) == Training_show_training_info(t).out

\* C7: for every Swimming record with duration > 0 the summary's speed is
\* length_pool * count_pool / 1000 / duration and its calories are
\* (meanSpeed + 1.1) * 2 * weight, its distance is action * 1.38 / 1000; a
\* record differing only in action has the same speed and calories, one
\* differing only in length_pool, count_pool or duration (> 0) has the same
\* distance; action=720, duration=1, weight=80, length_pool=25,
\* count_pool=40 gives speed 1.0, distance 0.9936, calories 336.0.
C7_SwimmingFormulas ==
    (LastCall("show_training_info", "Swimming") /\ Positive(last.self.duration))
        => LET t == last.self
               info == last.out.val
           IN  /\ Returned(last.out)
               /\ info.speed = C7_Speed(t)
               /\ info.calories = C7_Calories(t)
               /\ info.distance = C7_Distance(t)
               /\ \A a \in PosVals(1) :
                    LET u == SummaryOf([t EXCEPT !.action = Int2R(a)]).val
                    IN  u.speed = info.speed /\ u.calories = info.calories
               /\ \A l \in PosVals(4), c \in PosVals(5), d \in PosVals(2) \ {0} :
                    SummaryOf([t EXCEPT !.length_pool = Int2R(l),
                                        !.count_pool = Int2R(c),
                                        !.duration = Int2R(d)]).val.distance
                        = info.distance
               /\ t = C7_Example
                    => /\ info.speed = Int2R(1)
                       /\ info.distance = Rat(9936, 10000)
                       /\ info.calories = Int2R(336)

\* the example record: its reported speed is not its distance / duration
C7_Witness ==
    /\ LastCall("show_training_info", "Swimming")
    /\ last.self = C7_Example
    /\ Returned(last.out)
    /\ last.out.val.speed = Int2R(1)
    /\ last.out.val.speed # RTrueDiv(last.out.val.distance, last.self.duration)

\* C10: a duration of 0 is accepted at construction; on such a record of any
\* of the three variants get_distance returns action * LEN_STEP / 1000, and
\* get_mean_speed, get_spent_calories, show_training_info and main raise the
\* division-by-zero error, so no summary is produced and no line is printed.
C10_ZeroDuration ==
    /\ (/\ LastIsRead
        /\ last.workout_type \in Registered
        /\ Len(last.data) = FieldCount(last.workout_type)
        /\ last.data[2] = Zero)
            => (Returned(last.out) /\ obj.duration = Zero)
    /\ (/\ last.op \in Getters \cup {"main"}
        /\ last.self.cls \in {"Running", "SportsWalking", "Swimming"}
        /\ last.self.duration = Zero)
            => IF last.op = "get_distance"
               THEN last.out = Return(IF last.self.cls = "Swimming"
                                      THEN C7_Distance(last.self)
                                      ELSE C5_Distance(last.self))
               ELSE last.out = Raise("ZeroDivisionError")

C10_Witness ==
    /\ LastCall("main", "Swimming")
    /\ last.self.duration = Zero
    /\ last.self = obj0
    /\ last.out = Raise("ZeroDivisionError")

----------------------------------------------------------------------------
(* Properties of the base class and of repeated calls *)

\* C3: get_spent_calories on a base Training record raises and returns no
\* value, and so show_training_info on a base record yields no summary.
C3_BaseCaloriesRaises ==
    /\ LastCall("get_spent_calories", "Training") => Raised(last.out)
    /\ LastCall("show_training_info", "Training") => Raised(last.out)

\* what the code does instead: the call returns None, and the summary of a
\* base record with duration > 0 carries None as its calories
C3_BaseCaloriesReturnsNone ==
    /\ LastCall("get_spent_calories", "Training") => last.out = Return(None)
    /\ (LastCall("show_training_info", "Training") /\ Positive(last.self.duration))
            => (Returned(last.out) /\ last.out.val.calories = None)
    /\ (LastCall("main", "Training") /\ Positive(last.self.duration))
            => last.out = Raise("TypeError")

\* C8: any number of calls of show_training_info, get_distance,
\* get_mean_speed and get_spent_calories, in any order, leave every field of
\* the record as constructed, and all show_training_info calls on the record
\* have the same outcome, field by field.
C8_PureAndRepeatable ==
    /\ ncalls > 0 => (obj = obj0 /\ DOMAIN obj = DOMAIN obj0)
    /\ \A i, j \in 1..Len(infos) : infos[i] = infos[j]

\* two summaries of one Running record with a get_spent_calories call
\* before or between them
C8_Witness ==
    /\ ncalls = 3
    /\ Len(infos) = 2
    /\ Returned(infos[1])
    /\ infos[1].val.training_type = "Running"
    /\ last.op = "show_training_info"
    /\ infos[2] = last.out

----------------------------------------------------------------------------
(* Properties of the driver loop *)

\* record p faults: reading it or printing its summary raises
Faults(p) ==
    LET r == read_package(p[1], p[2])
    IN  Raised(r) \/ Raised(main(r.val))

\* the line printed for a record that does not fault
Line(p) == main(read_package(p[1], p[2]).val).val

NoFaultyRecord == \A i \in 1..Len(packages) : ~Faults(packages[i])

C9_Prefix ==
    /\ Len(stdout) <= Len(packages)
    /\ \A i \in 1..Len(stdout) : ~Faults(packages[i]) /\ stdout[i] = Line(packages[i])
    /\ pc \in {"for", "read", "main"} => Len(stdout) = idx - 1
    /\ pc \in {"read", "main"} => idx <= Len(packages)
    /\ pc = "main" => training = read_package(packages[idx][1], packages[idx][2]).val
    /\ pc = "aborted" => /\ idx <= Len(packages)
                         /\ Faults(packages[idx])
                         /\ Len(stdout) = idx - 1
                         /\ exc # "none"
    /\ pc = "exit" => (NoFaultyRecord /\ Len(stdout) = Len(packages))

\* C9: the printed output is at every moment the lines of a prefix of the
\* list, in input order; a record is read only when the lines of all records
\* before it are printed; when record k faults the run aborts with exactly the
\* lines of the records before k printed and prints nothing afterwards; with
\* no faulting record the run ends after printing one line per record.
C9_DriverOrder ==
    /\ []C9_Prefix
    /\ [][(pc \in {"aborted", "exit"}) => UNCHANGED stdout]_vars
    /\ NoFaultyRecord ~> (pc = "exit" /\ Len(stdout) = Len(packages))
    /\ (~NoFaultyRecord) ~> (pc = "aborted")

\* a run of three records whose second faults: one line printed, then abort
C9_Witness ==
    /\ Len(packages) = 3
    /\ ~Faults(packages[1])
    /\ packages[2][1] = "CYC"
    /\ pc = "aborted"
    /\ idx = 2
    /\ exc = "KeyError"
    /\ stdout = <<Line(packages[1])>>

\* the run of the __main__ block: three lines, then the loop ends
C9_WitnessMain ==
    /\ packages = MainPackages
    /\ pc = "exit"
    /\ Len(stdout) = 3
    /\ stdout[1].training_type = "Swimming"
    /\ stdout[1].distance = 994
    /\ stdout[2].calories = 699750
    /\ stdout[3].calories = 157500

====
